---- MODULE Spec2Model ----
(***************************************************************************)
(* Grade computation and SMS notification dispatch of the student-records  *)
(* application: the results table of the store, the result-entry view,     *)
(* the SMS view (pending list, single send, bulk send), the Dashboard      *)
(* load and the functions of the CGPA analysis.  One action is one run-to-completion step of the browser's event  *)
(* loop: a click handler up to its first await, or the continuation that   *)
(* runs when an awaited store call or timer resolves, together with every  *)
(* continuation that becomes runnable in the same microtask drain.         *)
(*                                                                         *)
(* Scores are integers in thousandths of a point (69.996 is 69996); the    *)
(* grade-point values 0.0 .. 4.0 of the code are the integers 0 .. 4.      *)
(* A Result's id is its index in the results sequence, which is also its   *)
(* created_at order.  A cumulative_gpa is an integer in hundredths.        *)
(***************************************************************************)
EXTENDS Integers, Sequences, FiniteSets, Bags, TLC

\* ---- the rows of the sample data ----
NumStudents == 3
NumCourses == 5
NumSemesters == 2

\* ---- bounds of the model ----
MaxResults == 2
MaxClicks == 2
MaxLoads == 1
MaxRecords == 2
MaxHistory == 1

VARIABLES
  results,         \* store: the rows of public.results, in created_at order
  pendingResults,  \* SMS view: useState pendingResults (ids, newest first)
  preview,         \* SMS view: the message previews of the rendered rows
  sending,         \* SMS view: useState sending
  loading,         \* SMS view: useState loading
  fetchReq,        \* fetchPendingResults calls whose query is not yet evaluated
  fetchResp,       \* bag of fetchPendingResults responses not yet delivered
  sends,           \* sendSingleSMS invocations in flight
  bulk,            \* the latest sendBulkSMS run (pc "none" before the first)
  clicks,          \* number of Send and Send All clicks so far
  toast,           \* the notices shown by the latest step that showed any
  entryResults,    \* result-entry view: useState results (rows as fetched)
  entryFetches,    \* fetchData calls not yet resolved
  dash,            \* fetchDashboardStats: position and values read so far
  stats,           \* Dashboard: useState stats
  gScore,          \* input of a grade computation
  gInfo,           \* its output in the client (calculateGradeInfo)
  gDb,             \* its output in the database (calculate_grade)
  formData,        \* result-entry view: useState formData
  cgpa_records,    \* store: the rows of public.cgpa_records
  aCgpa,           \* input of an analysis: the current CGPA, in hundredths
  aRecords,        \* input of an analysis: cumulative_gpa of the records
  aOut,            \* its output
  analysis         \* CGPA view: useState analysis

vars == <<results, pendingResults, preview, sending, loading, fetchReq, fetchResp,
          sends, bulk, clicks, toast, entryResults, entryFetches,
          dash, stats, gScore, gInfo, gDb, formData, cgpa_records,
          aCgpa, aRecords, aOut, analysis>>

smsVars == <<pendingResults, preview, sending, loading, fetchReq, fetchResp, sends,
             bulk, clicks>>
entryVars == <<entryResults, entryFetches, formData>>
dashVars == <<dash, stats>>
gradeVars == <<gScore, gInfo, gDb>>
cgpaVars == <<cgpa_records, aCgpa, aRecords, aOut, analysis>>

\* ---- helpers ----
Pt(n) == n * 1000

Range(s) == {s[i] : i \in DOMAIN s}

RECURSIVE SeqSum(_)
SeqSum(s) == IF s = <<>> THEN 0 ELSE s[1] + SeqSum(Tail(s))

\* the rows of a sequence that satisfy Keep, newest (highest index) first
RECURSIVE NewestFirst(_, _)
NewestFirst(n, keep) ==
  IF n = 0 THEN <<>>
  ELSE IF n \in keep THEN <<n>> \o NewestFirst(n - 1, keep)
       ELSE NewestFirst(n - 1, keep)

\* the (student, course, semester) triples in a fixed enumeration, course
\* first; triples are interchangeable, and result entry uses them in this
\* order: the n-th new Result is entered for one of the first n triples
TripleAt(n) ==
  [course_id |-> ((n - 1) % NumCourses) + 1,
   student_id |-> (((n - 1) \div NumCourses) % NumStudents) + 1,
   semester_id |-> ((n - 1) \div (NumCourses * NumStudents)) + 1]

NumTriples == NumStudents * NumCourses * NumSemesters

EntryTriples(rows) ==
  {TripleAt(n) : n \in 1 .. (IF Len(rows) < NumTriples
                              THEN Len(rows) + 1 ELSE NumTriples)}

Toast(title, rid, s, f) ==
  [title |-> title, rid |-> rid, successCount |-> s, failCount |-> f,
   description |-> ""]

\* a notice of the result-entry view, told apart by its description
ToastD(title, description) ==
  [title |-> title, rid |-> 0, successCount |-> 0, failCount |-> 0,
   description |-> description]

\* ---- GradeCalculator ----
\* mutant: the bands compare with > instead of >=
calculateGradeInfoStrict(score) ==
  IF score > Pt(70) THEN [grade |-> "A", grade_point |-> 4]
  ELSE IF score > Pt(60) THEN [grade |-> "B", grade_point |-> 3]
  ELSE IF score > Pt(50) THEN [grade |-> "C", grade_point |-> 2]
  ELSE IF score > Pt(45) THEN [grade |-> "D", grade_point |-> 1]
  ELSE IF score > Pt(40) THEN [grade |-> "E", grade_point |-> 0]
  ELSE [grade |-> "F", grade_point |-> 0]

calculateGradeInfo(score) ==
  IF score >= Pt(70) THEN [grade |-> "A", grade_point |-> 4]
  ELSE IF score >= Pt(60) THEN [grade |-> "B", grade_point |-> 3]
  ELSE IF score >= Pt(50) THEN [grade |-> "C", grade_point |-> 2]
  ELSE IF score >= Pt(45) THEN [grade |-> "D", grade_point |-> 1]
  ELSE IF score >= Pt(40) THEN [grade |-> "E", grade_point |-> 0]
  ELSE [grade |-> "F", grade_point |-> 0]

\* mutant: the grade_point CASE lacks the WHEN of the D band
calculate_gradeNoD(score) ==
  [grade |-> IF score >= Pt(70) THEN "A"
             ELSE IF score >= Pt(60) THEN "B"
             ELSE IF score >= Pt(50) THEN "C"
             ELSE IF score >= Pt(45) THEN "D"
             ELSE IF score >= Pt(40) THEN "E"
             ELSE "F",
   grade_point |-> IF score >= Pt(70) THEN 4
                   ELSE IF score >= Pt(60) THEN 3
                   ELSE IF score >= Pt(50) THEN 2
                   ELSE IF score >= Pt(40) THEN 0
                   ELSE 0]

\* public.calculate_grade(score DECIMAL): one CASE for the grade and one
\* for the grade point, each taking its first WHEN that holds
calculate_grade(score) ==
  [grade |-> IF score >= Pt(70) THEN "A"
             ELSE IF score >= Pt(60) THEN "B"
             ELSE IF score >= Pt(50) THEN "C"
             ELSE IF score >= Pt(45) THEN "D"
             ELSE IF score >= Pt(40) THEN "E"
             ELSE "F",
   grade_point |-> IF score >= Pt(70) THEN 4
                   ELSE IF score >= Pt(60) THEN 3
                   ELSE IF score >= Pt(50) THEN 2
                   ELSE IF score >= Pt(45) THEN 1
                   ELSE IF score >= Pt(40) THEN 0
                   ELSE 0]

\* ---- the store: public.results ----
\* a score as the column type DECIMAL(5,2) keeps it: rounded to hundredths,
\* a half away from zero
Decimal52(x) ==
  IF x >= 0 THEN ((x + 5) \div 10) * 10 ELSE 0 - (((5 - x) \div 10) * 10)

\* mutant: the column default of sms_sent is true
StoredRowNotified(row) ==
  [student_id |-> row.student_id, course_id |-> row.course_id,
   semester_id |-> row.semester_id, score |-> Decimal52(row.score),
   grade |-> row.grade, grade_point |-> row.grade_point, sms_sent |-> TRUE]

\* the row as the table stores it: score coerced to the column type,
\* sms_sent from the column default
StoredRow(row) ==
  [student_id |-> row.student_id, course_id |-> row.course_id,
   semester_id |-> row.semester_id, score |-> Decimal52(row.score),
   grade |-> row.grade, grade_point |-> row.grade_point, sms_sent |-> FALSE]

\* mutant: the table has no CHECK constraints
ResultsCheckNone(row) == TRUE

\* the CHECK constraints of the results table
ResultsCheck(row) ==
  /\ row.score >= Pt(0) /\ row.score <= Pt(100)
  /\ row.grade_point >= 0 /\ row.grade_point <= 4

\* mutant: the table has no UNIQUE constraint
ResultsUniqueNone(rows, row) == TRUE

\* UNIQUE(student_id, course_id, semester_id)
ResultsUnique(rows, row) ==
  \A i \in DOMAIN rows :
    <<rows[i].student_id, rows[i].course_id, rows[i].semester_id>>
      # <<row.student_id, row.course_id, row.semester_id>>

\* mutant: an insert on an existing triple replaces the row (an upsert), so
\* that the row gets the column default sms_sent = false again
InsertResultUpsert(rows, row, netOk) ==
  LET stored == StoredRow(row) IN
  IF netOk /\ ResultsCheck(stored) /\ ResultsUnique(rows, stored)
  THEN [ok |-> TRUE, message |-> "", rows |-> Append(rows, stored)]
  ELSE IF netOk /\ ResultsCheck(stored)
  THEN [ok |-> TRUE, message |-> "",
        rows |-> [i \in DOMAIN rows |->
                   IF <<rows[i].student_id, rows[i].course_id, rows[i].semester_id>>
                        = <<row.student_id, row.course_id, row.semester_id>>
                   THEN stored ELSE rows[i]]]
  ELSE [ok |-> FALSE, message |-> "Failed to fetch", rows |-> rows]

\* supabase.from('results').insert([row]): the row is stored, with the
\* column defaults, unless the call fails (netOk = FALSE) or a constraint
\* rejects it; the error carries the message of what failed
InsertResult(rows, row, netOk) ==
  LET stored == StoredRow(row) IN
  IF ~netOk
  THEN [ok |-> FALSE, message |-> "Failed to fetch", rows |-> rows]
  ELSE IF ~ResultsCheck(stored)
  THEN [ok |-> FALSE, message |-> "violates check constraint", rows |-> rows]
  ELSE IF ~ResultsUnique(rows, stored)
  THEN [ok |-> FALSE,
        message |-> "duplicate key value violates unique constraint",
        rows |-> rows]
  ELSE [ok |-> TRUE, message |-> "", rows |-> Append(rows, stored)]

\* mutant: the update has no filter on the id and marks every row
UpdateSmsSentAll(rows, rid, netOk) ==
  IF netOk
  THEN [ok |-> TRUE,
        rows |-> [r \in DOMAIN rows |-> [rows[r] EXCEPT !.sms_sent = TRUE]]]
  ELSE [ok |-> FALSE, rows |-> rows]

\* mutant: the flag is written although the call reports an error
UpdateSmsSentAlways(rows, rid, netOk) ==
  [ok |-> netOk,
   rows |-> [rows EXCEPT ![rid] = [@ EXCEPT !.sms_sent = TRUE]]]

\* supabase.from('results').update({ sms_sent: true }).eq('id', rid)
UpdateSmsSent(rows, rid, netOk) ==
  IF netOk
  THEN [ok |-> TRUE,
        rows |-> [rows EXCEPT ![rid] = [@ EXCEPT !.sms_sent = TRUE]]]
  ELSE [ok |-> FALSE, rows |-> rows]

\* .eq('sms_sent', false).order('created_at', { ascending: false })
PendingQuery(rows) ==
  NewestFirst(Len(rows), {i \in DOMAIN rows : ~rows[i].sms_sent})

\* ---- result-entry view ----
\* what parseFloat yields for a text that does not start with a number
NaN == 0 - Pt(1000)

isNaN(score) == score = NaN

\* the score texts a user submits, by the number parseFloat reads in them:
\* none, below the range, two valid ones, above the range
ScoreInputs == {NaN, Pt(0) - 1, Pt(45), 69996, Pt(100) + 1}

\* the score entered where only the dispatch of the Result matters
DispatchScores == {Pt(45)}

\* useState formData: the three selections and the score text, each ""
\* at first; a filled field is a one-element tuple
EmptyForm ==
  [student_id |-> <<>>, course_id |-> <<>>, semester_id |-> <<>>,
   score |-> <<>>]

Form(s, c, m, score) ==
  [student_id |-> <<s>>, course_id |-> <<c>>, semester_id |-> <<m>>,
   score |-> <<score>>]

\* the onChange handlers of the form, for the four fields at once
setFormData(s, c, m, score) ==
  /\ Len(results) < MaxResults
  /\ formData # Form(s, c, m, score)
  /\ formData' = Form(s, c, m, score)
  /\ UNCHANGED <<results, toast, entryResults, entryFetches, smsVars,
                 dashVars, gradeVars, cgpaVars>>

\* mutant: the validation has no upper limit
ScoreInvalidNoUpper(score) == isNaN(score) \/ score < Pt(0)

\* isNaN(score) || score < 0 || score > 100
ScoreInvalid(score) == isNaN(score) \/ score < Pt(0) \/ score > Pt(100)

\* handleAddResult on a form that holds (s, c, m, score), with the
\* fetchData() it ends with on success.  FormSpec requires formData to hold
\* them; in the other specifications they are the form of any client
handleAddResult(s, c, m, score, netOk) ==
  /\ Len(results) < MaxResults
  /\ IF ScoreInvalid(score)
     THEN /\ toast' = <<ToastD("Error",
                         "Please enter a valid score between 0 and 100")>>
          /\ UNCHANGED <<results, entryVars>>
     ELSE LET gradeInfo == calculateGradeInfo(score)
              r == InsertResult(results,
                     [student_id |-> s, course_id |-> c, semester_id |-> m,
                      score |-> score, grade |-> gradeInfo.grade,
                      grade_point |-> gradeInfo.grade_point], netOk)
          IN /\ results' = r.rows
             /\ IF r.ok
                THEN /\ toast' = <<ToastD("Success", "Result added successfully")>>
                     /\ formData' = EmptyForm
                     /\ entryFetches' = entryFetches + 1
                ELSE /\ toast' = <<ToastD("Error", r.message)>>
                     /\ UNCHANGED <<formData, entryFetches>>
             /\ UNCHANGED entryResults
  /\ UNCHANGED <<smsVars, dashVars, gradeVars,
                 cgpaVars>>

\* a fetchData call resolves: the rows as the store has them now, newest
\* first, or [] when the query failed (resultsData.data || [])
fetchDataResolve(ok) ==
  /\ entryFetches > 0
  /\ entryFetches' = entryFetches - 1
  /\ entryResults' =
       IF ok
       THEN [i \in 1 .. Len(results) |->
               [id |-> Len(results) + 1 - i,
                sms_sent |-> results[Len(results) + 1 - i].sms_sent]]
       ELSE <<>>
  /\ UNCHANGED <<results, toast, formData, smsVars, dashVars, gradeVars,
                 cgpaVars>>

\* the Send SMS button of a row shown as Pending
sendSMSNotification(resultId) ==
  /\ \E i \in DOMAIN entryResults :
       entryResults[i].id = resultId /\ ~entryResults[i].sms_sent
  /\ toast' = <<Toast("SMS Sent", resultId, 0, 0)>>
  /\ UNCHANGED <<results, entryVars, smsVars, dashVars, gradeVars,
                 cgpaVars>>

\* ---- SMS view ----
\* the rows the migration inserts into students, courses and semesters,
\* with ids in the order of insertion
students ==
  <<[student_id |-> "STU001", first_name |-> "John", last_name |-> "Doe"],
    [student_id |-> "STU002", first_name |-> "Jane", last_name |-> "Smith"],
    [student_id |-> "STU003", first_name |-> "Mike", last_name |-> "Johnson"]>>

courses ==
  <<[course_code |-> "CS101",
     course_name |-> "Introduction to Computer Science"],
    [course_code |-> "MATH201", course_name |-> "Calculus II"],
    [course_code |-> "ENG101", course_name |-> "Technical Writing"],
    [course_code |-> "PHY101", course_name |-> "Physics I"],
    [course_code |-> "CS201", course_name |-> "Data Structures"]>>

semesters ==
  <<[name |-> "Fall 2024", year |-> 2024, start_date |-> 20240901],
    [name |-> "Spring 2024", year |-> 2024, start_date |-> 20240115]>>

\* semesters (name, year) in a select: the two columns of the joined row
SemesterJoin(semester_id) ==
  [name |-> semesters[semester_id].name,
   year |-> semesters[semester_id].year]

\* a row of the pending query: the Result with its student, course and
\* semester joined in
PendingResult(rows, rid) ==
  [id |-> rid, score |-> rows[rid].score, grade |-> rows[rid].grade,
   students |-> students[rows[rid].student_id],
   courses |-> courses[rows[rid].course_id],
   semesters |-> SemesterJoin(rows[rid].semester_id)]

\* a score in a template literal: the shortest decimal text of the number,
\* which for a DECIMAL(5,2) value has at most two decimals and no
\* trailing zero
NumberToString(x) ==
  LET whole == x \div 1000
      cents == (x % 1000) \div 10
  IN IF cents = 0 THEN ToString(whole)
     ELSE IF cents % 10 = 0
     THEN ToString(whole) \o "." \o ToString(cents \div 10)
     ELSE IF cents < 10
     THEN ToString(whole) \o ".0" \o ToString(cents)
     ELSE ToString(whole) \o "." \o ToString(cents)

\* mutant: the course name and the course code change places
generateMessageSwapped(result) ==
  "Dear " \o result.students.first_name \o ", your "
    \o result.courses.course_name \o " (" \o result.courses.course_code
    \o ") result for " \o result.semesters.name \o " "
    \o ToString(result.semesters.year) \o " is now available. Score: "
    \o NumberToString(result.score) \o "% (Grade " \o result.grade
    \o "). Visit the portal for details."

generateMessage(result) ==
  "Dear " \o result.students.first_name \o ", your "
    \o result.courses.course_code \o " (" \o result.courses.course_name
    \o ") result for " \o result.semesters.name \o " "
    \o ToString(result.semesters.year) \o " is now available. Score: "
    \o NumberToString(result.score) \o "% (Grade " \o result.grade
    \o "). Visit the portal for details."

RemoveAt(s, i) == SubSeq(s, 1, i - 1) \o SubSeq(s, i + 1, Len(s))

\* no sendBulkSMS run yet
NoBulk ==
  [pc |-> "none", list |-> <<>>, idx |-> 0, successCount |-> 0,
   failCount |-> 0, attempted |-> <<>>, outcomes |-> <<>>]

\* a run ended with some items sent and some failed
PartialFailure(b) ==
  /\ b.pc = "done"
  /\ \E i \in DOMAIN b.outcomes : b.outcomes[i]
  /\ \E i \in DOMAIN b.outcomes : ~b.outcomes[i]

\* the SMS view mounts: fresh component state and a first fetch.  The model
\* lets the user open the view only while none of its work is in flight.
SMSNotificationsMount ==
  /\ sends = <<>> /\ fetchReq = 0 /\ fetchResp = EmptyBag
  /\ bulk.pc # "loop"
  /\ pendingResults' = <<>>
  /\ preview' = <<>>
  /\ sending' = FALSE
  /\ loading' = TRUE
  /\ fetchReq' = 1
  /\ UNCHANGED <<results, fetchResp, sends, bulk, clicks, toast,
                 entryVars, dashVars, gradeVars,
                 cgpaVars>>

\* the store evaluates the query of one fetchPendingResults call
fetchPendingResultsServe(netOk) ==
  /\ fetchReq > 0
  /\ fetchReq' = fetchReq - 1
  /\ fetchResp' = fetchResp (+) SetToBag({
       [ok |-> netOk, data |-> IF netOk THEN PendingQuery(results) ELSE <<>>]})
  /\ UNCHANGED <<results, pendingResults, preview, sending, loading, sends,
                 bulk, clicks, toast, entryVars, dashVars, gradeVars,
                 cgpaVars>>

\* a response reaches fetchPendingResults; responses arrive in any order
fetchPendingResultsDeliver(resp) ==
  /\ BagIn(resp, fetchResp)
  /\ fetchResp' = fetchResp (-) SetToBag({resp})
  /\ IF resp.ok
     THEN /\ pendingResults' = resp.data
          /\ preview' = [k \in DOMAIN resp.data |->
                           generateMessage(PendingResult(results, resp.data[k]))]
          /\ UNCHANGED toast
     ELSE /\ toast' = <<Toast("Error", 0, 0, 0)>>
          /\ UNCHANGED <<pendingResults, preview>>
  /\ loading' = FALSE
  /\ UNCHANGED <<results, sending, fetchReq, sends, bulk, clicks,
                 entryVars, dashVars, gradeVars,
                 cgpaVars>>

\* sendSingleSMS up to its first await: setSending(true), the message is
\* rendered and logged, the simulated delivery delay starts.  The row it
\* is called with is the one a fetch returned for rid; no operation changes
\* a field of a stored row that the message shows
sendSingleSMSStart(rid, owner) ==
  [rid |-> rid, owner |-> owner, pc |-> "delay",
   message |-> generateMessage(PendingResult(results, rid))]

\* mutant: the Send button of a row is never disabled
SendDisabledNever == FALSE

\* disabled={sending} on the Send button of a row
SendDisabled == sending

\* the Send button of a pending row
sendSingleSMSClick(rid) ==
  /\ ~loading /\ ~SendDisabled
  /\ rid \in Range(pendingResults)
  /\ clicks < MaxClicks
  /\ clicks' = clicks + 1
  /\ sending' = TRUE
  /\ sends' = Append(sends, sendSingleSMSStart(rid, "user"))
  /\ UNCHANGED <<results, pendingResults, preview, loading, fetchReq,
                 fetchResp, bulk, toast, entryVars, dashVars, gradeVars,
                 cgpaVars>>

\* mutant: the run starts the sends of all its items at once
BulkFirstSendsFanOut(list) ==
  [i \in 1 .. Len(list) |-> sendSingleSMSStart(list[i], "bulk")]

\* the sends a bulk run starts before it first suspends: that of item 1
BulkFirstSends(list) ==
  <<sendSingleSMSStart(list[1], "bulk")>>

\* the Send All button: sendBulkSMS up to its first await, over the
\* pendingResults of the render the click came from
sendBulkSMSClick ==
  /\ ~sending
  /\ Len(pendingResults) > 0
  /\ clicks < MaxClicks
  /\ clicks' = clicks + 1
  /\ bulk' = [pc |-> "loop", list |-> pendingResults, idx |-> 1,
              successCount |-> 0, failCount |-> 0,
              attempted |-> <<pendingResults[1]>>, outcomes |-> <<>>]
  /\ sends' = sends \o BulkFirstSends(pendingResults)
  /\ sending' = TRUE
  /\ UNCHANGED <<results, pendingResults, preview, loading, fetchReq,
                 fetchResp, toast, entryVars, dashVars, gradeVars,
                 cgpaVars>>

\* the simulated delivery delay of a send ends; the flag update is issued
sendSingleSMSDelivered(i) ==
  /\ i \in DOMAIN sends
  /\ sends[i].pc = "delay"
  /\ sends' = [sends EXCEPT ![i].pc = "update"]
  /\ UNCHANGED <<results, pendingResults, preview, sending, loading,
                 fetchReq, fetchResp, bulk, clicks, toast, entryVars, dashVars,
                 gradeVars,
                 cgpaVars>>

\* whether the promise of sendSingleSMS rejects: its catch block handles
\* every error and does not rethrow
sendSingleSMSRejects(ok) == FALSE

\* mutant: the finally block is skipped when the update failed
SendingAfterSendStuck(ok) == ~ok

\* the sending flag as the finally block of sendSingleSMS leaves it
SendingAfterSend(ok) == FALSE

\* the try/catch around await sendSingleSMS(result) in the bulk loop
BulkCount(b, rejected) ==
  IF rejected THEN [b EXCEPT !.failCount = @ + 1]
  ELSE [b EXCEPT !.successCount = @ + 1]

\* mutant: the loop ends at the first item whose send failed
BulkHasNextAbort(b, ok) == ok /\ b.idx < Len(b.list)

\* for (const result of pendingResults): is there a next item
BulkHasNext(b, ok) == b.idx < Len(b.list)

\* the flag update of a send resolves or rejects; sendSingleSMS runs to its
\* end and, for a send of a bulk run, the loop of sendBulkSMS runs on to the
\* next item's first await or to its own end
sendSingleSMSResolve(i, netOk) ==
  /\ i \in DOMAIN sends
  /\ sends[i].pc = "update"
  /\ LET sd == sends[i]
         u == UpdateSmsSent(results, sd.rid, netOk)
         shown == IF u.ok THEN <<Toast("SMS Sent", sd.rid, 0, 0)>>
                  ELSE <<Toast("Error", sd.rid, 0, 0)>>
         rest == RemoveAt(sends, i)
     IN /\ results' = u.rows
        /\ fetchReq' = IF u.ok THEN fetchReq + 1 ELSE fetchReq
        /\ IF sd.owner = "user"
           THEN /\ sends' = rest
                /\ sending' = SendingAfterSend(u.ok)
                /\ toast' = shown
                /\ UNCHANGED bulk
           ELSE LET b == [BulkCount(bulk, sendSingleSMSRejects(u.ok))
                            EXCEPT !.outcomes = Append(@, u.ok)]
                IN IF BulkHasNext(b, u.ok)
                   THEN /\ bulk' = [b EXCEPT !.idx = @ + 1,
                                     !.attempted = Append(@, b.list[b.idx + 1])]
                        /\ sends' = Append(rest,
                              sendSingleSMSStart(b.list[b.idx + 1], "bulk"))
                        /\ sending' = TRUE
                        /\ toast' = shown
                   ELSE /\ bulk' = [b EXCEPT !.pc = "done"]
                        /\ sends' = rest
                        /\ sending' = FALSE
                        /\ toast' = Append(shown,
                              Toast("Bulk SMS Complete", 0,
                                    b.successCount, b.failCount))
  /\ UNCHANGED <<pendingResults, preview, loading, fetchResp, clicks, entryVars,
                 dashVars, gradeVars,
                 cgpaVars>>

\* ---- Dashboard ----
\* count: 'exact' with .eq('sms_sent', true)
NotifiedCount(rows) == Cardinality({i \in DOMAIN rows : rows[i].sms_sent})

\* .order('created_at', { ascending: false }).limit(5), rows as selected
RecentResults(rows) ==
  LET ids == NewestFirst(Len(rows), DOMAIN rows)
      n == IF Len(ids) < 5 THEN Len(ids) ELSE 5
  IN [i \in 1 .. n |->
        [id |-> ids[i], grade |-> rows[ids[i]].grade,
         sms_sent |-> rows[ids[i]].sms_sent]]

\* mutant: a grade seen again is set to 1 instead of counted up
GradeDistributionNoAdd(gradeData) ==
  [g \in {gradeData[i] : i \in DOMAIN gradeData} |-> 1]

\* gradeData.reduce(...): a count for every grade that occurs
GradeDistribution(gradeData) ==
  [g \in {gradeData[i] : i \in DOMAIN gradeData} |->
     Cardinality({i \in DOMAIN gradeData : gradeData[i] = g})]

\* sum / length to the nearest whole; at an exact half, up or down as told
MeanToNearest(sum, n, tieUp) ==
  LET q == sum \div n
      twice == 2 * (sum % n)
  IN IF twice > n \/ (twice = n /\ tieUp) THEN q + 1 ELSE q

\* mutant: the mean is taken also of no records, which gives NaN
AverageCGPAUnguarded(cgpaData, tieUp) ==
  IF Len(cgpaData) > 0
  THEN MeanToNearest(SeqSum(cgpaData), Len(cgpaData), tieUp)
  ELSE NaN

\* parseFloat(averageCGPA.toFixed(2)), in hundredths: the mean of
\* cumulative_gpa to two decimals, 0 if there are no records.  A mean that
\* lies exactly between two hundredths is not a double; whether the double
\* that stands for it lies above or below decides what toFixed(2) yields,
\* and tieUp says which
AverageCGPA(cgpaData, tieUp) ==
  IF Len(cgpaData) > 0
  THEN MeanToNearest(SeqSum(cgpaData), Len(cgpaData), tieUp)
  ELSE 0

DashIdle ==
  [pc |-> 0, studentsCount |-> 0, coursesCount |-> 0, smsCount |-> 0,
   recentResults |-> <<>>, gradeDistribution |-> <<>>, allOk |-> TRUE,
   loads |-> 0]

\* the Dashboard mounts: fetchDashboardStats up to its first await
fetchDashboardStatsStart ==
  /\ dash.pc = 0
  /\ dash.loads < MaxLoads
  /\ dash' = [DashIdle EXCEPT !.pc = 1, !.loads = dash.loads + 1]
  /\ UNCHANGED <<results, toast, stats, smsVars, entryVars, gradeVars,
                 cgpaVars>>

\* one awaited query of fetchDashboardStats resolves (a failed query yields
\* no data and no exception); after the last one the statistics are set
fetchDashboardStatsStep(netOk) ==
  /\ dash.pc > 0
  /\ \/ /\ dash.pc = 1
        /\ dash' = [dash EXCEPT !.pc = 2, !.allOk = @ /\ netOk,
                      !.studentsCount = IF netOk THEN NumStudents ELSE 0]
        /\ UNCHANGED stats
     \/ /\ dash.pc = 2
        /\ dash' = [dash EXCEPT !.pc = 3, !.allOk = @ /\ netOk,
                      !.coursesCount = IF netOk THEN NumCourses ELSE 0]
        /\ UNCHANGED stats
     \/ /\ dash.pc = 3
        /\ dash' = [dash EXCEPT !.pc = 4, !.allOk = @ /\ netOk,
                      !.smsCount = IF netOk THEN NotifiedCount(results) ELSE 0]
        /\ UNCHANGED stats
     \/ /\ dash.pc = 4
        /\ dash' = [dash EXCEPT !.pc = 5, !.allOk = @ /\ netOk,
                      !.recentResults =
                         IF netOk THEN RecentResults(results) ELSE <<>>]
        /\ UNCHANGED stats
     \/ /\ dash.pc = 5
        /\ dash' = [dash EXCEPT !.pc = 6, !.allOk = @ /\ netOk,
                      !.gradeDistribution =
                         IF netOk
                         THEN GradeDistribution(
                                [i \in DOMAIN results |-> results[i].grade])
                         ELSE <<>>]
        /\ UNCHANGED stats
     \/ /\ dash.pc = 6
        /\ \E tieUp \in BOOLEAN :
             stats' = [totalStudents |-> dash.studentsCount,
                     totalCourses |-> dash.coursesCount,
                     averageCGPA |->
                        IF netOk
                        THEN AverageCGPA(
                               [i \in DOMAIN cgpa_records |->
                                  cgpa_records[i].cumulative_gpa], tieUp)
                        ELSE 0,
                     smsSent |-> dash.smsCount,
                     recentResults |-> dash.recentResults,
                     gradeDistribution |-> dash.gradeDistribution,
                     loaded |-> TRUE, allOk |-> dash.allOk /\ netOk]
        /\ dash' = [DashIdle EXCEPT !.loads = dash.loads]
  /\ UNCHANGED <<results, toast, smsVars, entryVars, gradeVars,
                 cgpaVars>>

\* ---- grade computation on its own ----
NoGrade == [grade |-> "", grade_point |-> 0]

\* the same score given to the client's function and to the database's
ApplyGrade ==
  /\ gInfo = NoGrade
  /\ gInfo' = calculateGradeInfo(gScore)
  /\ gDb' = calculate_grade(gScore)
  /\ UNCHANGED <<results, toast, gScore, smsVars, entryVars, dashVars,
                 cgpaVars>>

\* ---- CGPA analysis ----
\* A cumulative_gpa is a DECIMAL(3,2) of [0, 4], here in hundredths.  The
\* client holds it as the double nearest to it.  Comparing two such doubles,
\* or one with a two-decimal literal, gives what comparing the hundredths
\* gives; their difference does not: it carries the rounding errors of
\* both, which the definitions below compute exactly.

RECURSIVE Pow2Mod(_, _)
Pow2Mod(k, m) == IF k = 0 THEN 1 % m ELSE (2 * Pow2Mod(k - 1, m)) % m

RECURSIVE Pow2(_)
Pow2(k) == IF k = 0 THEN 1 ELSE 2 * Pow2(k - 1)

\* the number of fraction bits of the doubles around x / 100 (x >= 1):
\* 52 in [1, 2), one less per doubling, one more per halving
RECURSIVE FracBits(_)
FracBits(x) ==
  IF x >= 200 THEN FracBits(x \div 2) - 1
  ELSE IF x < 100 THEN FracBits(2 * x) + 1
  ELSE 52

\* the fraction bits of the finest double among the hundredths of [0, 4]
FinestBits == FracBits(1)

\* double(x / 100) - x / 100 in units of 1 / (100 * 2^FinestBits): x / 100
\* is rounded to the nearest multiple of 2^-FracBits(x)
DoubleErr(x) ==
  IF x = 0 THEN 0
  ELSE LET k == FracBits(x)
           r == ((x % 100) * Pow2Mod(k, 100)) % 100
       IN (IF r < 50 THEN 0 - r ELSE 100 - r) * Pow2(FinestBits - k)

\* the literal 0.2, in hundredths
TrendLimit == 20

\* whether the double for the literal 0.2 has an odd last bit
TrendLimitOdd ==
  LET k == FracBits(TrendLimit)
      e == DoubleErr(TrendLimit) \div Pow2(FinestBits - k)
  IN ((TrendLimit * Pow2Mod(k, 200) + e) % 200) \div 100 = 1

\* (b - a) > 0.2 as the doubles evaluate it, for a and b in hundredths: the
\* difference is rounded to the doubles around 0.2, to even at a tie
DoubleDiffExceeds(a, b) ==
  IF b - a # TrendLimit THEN b - a > TrendLimit
  ELSE LET half == 50 * Pow2(FinestBits - FracBits(TrendLimit))
           off == DoubleErr(b) - DoubleErr(a) - DoubleErr(TrendLimit)
       IN off > half \/ (off = half /\ TrendLimitOdd)

\* mutant: the bands compare with > instead of >=
getClassificationStrict(cgpa) ==
  IF cgpa > 370 THEN "First Class Honours"
  ELSE IF cgpa > 330 THEN "Second Class Honours (Upper Division)"
  ELSE IF cgpa > 270 THEN "Second Class Honours (Lower Division)"
  ELSE IF cgpa > 200 THEN "Third Class Honours"
  ELSE "Pass"

getClassification(cgpa) ==
  IF cgpa >= 370 THEN "First Class Honours"
  ELSE IF cgpa >= 330 THEN "Second Class Honours (Upper Division)"
  ELSE IF cgpa >= 270 THEN "Second Class Honours (Lower Division)"
  ELSE IF cgpa >= 200 THEN "Third Class Honours"
  ELSE "Pass"

HighRiskList ==
  <<"Seek academic counseling immediately",
    "Consider reducing course load to focus on improving grades",
    "Utilize tutoring services and study groups",
    "Meet with academic advisor to discuss academic standing">>

MediumRiskList ==
  <<"Improve study habits and time management",
    "Seek help from professors during office hours",
    "Consider forming study groups with classmates",
    "Focus on courses with higher credit values">>

LowRiskList ==
  <<"Maintain consistent study schedule",
    "Challenge yourself with advanced courses",
    "Consider research opportunities or internships">>

ExcellentList ==
  <<"Excellent performance! Keep up the good work",
    "Consider pursuing honors programs or research",
    "Explore leadership opportunities",
    "Prepare for graduate school applications if interested">>

DeclineNote == "Address declining performance - identify problem areas"
ImprovementNote == "Great improvement! Continue with current strategies"

\* mutant: the bands compare with <= instead of <
BaseTierInclusive(cgpa) ==
  IF cgpa <= 200
  THEN [riskLevel |-> "high", recommendations |-> HighRiskList]
  ELSE IF cgpa <= 270
  THEN [riskLevel |-> "medium", recommendations |-> MediumRiskList]
  ELSE IF cgpa <= 330
  THEN [riskLevel |-> "low", recommendations |-> LowRiskList]
  ELSE [riskLevel |-> "low", recommendations |-> ExcellentList]

\* getRecommendations, its if / else-if chain on cgpa
BaseTier(cgpa) ==
  IF cgpa < 200
  THEN [riskLevel |-> "high", recommendations |-> HighRiskList]
  ELSE IF cgpa < 270
  THEN [riskLevel |-> "medium", recommendations |-> MediumRiskList]
  ELSE IF cgpa < 330
  THEN [riskLevel |-> "low", recommendations |-> LowRiskList]
  ELSE [riskLevel |-> "low", recommendations |-> ExcellentList]

\* getRecommendations, its trend-based part: what it pushes after the tier
TrendNote(records) ==
  IF Len(records) > 1
  THEN LET last == records[Len(records)]
           prev == records[Len(records) - 1]
       IN IF DoubleDiffExceeds(last, prev) THEN <<DeclineNote>>
          ELSE IF DoubleDiffExceeds(prev, last) THEN <<ImprovementNote>>
          ELSE <<>>
  ELSE <<>>

getRecommendations(cgpa, records) ==
  [riskLevel |-> BaseTier(cgpa).riskLevel,
   recommendations |-> BaseTier(cgpa).recommendations \o TrendNote(records)]

\* mutant: the indicator compares the first two records (slice(0, 2))
TrendFirstTwo(records) ==
  IF Len(records) > 1
  THEN IF records[2] > records[1] THEN "up"
       ELSE IF records[2] < records[1] THEN "down"
       ELSE "stable"
  ELSE "stable"

\* mutant: a latest record equal to the one before counts as a rise
TrendNonStrict(records) ==
  IF Len(records) > 1
  THEN IF records[Len(records)] >= records[Len(records) - 1] THEN "up"
       ELSE IF records[Len(records)] < records[Len(records) - 1] THEN "down"
       ELSE "stable"
  ELSE "stable"

\* analyzeCGPA, "Determine trend": lastTwo = records.slice(-2)
Trend(records) ==
  IF Len(records) > 1
  THEN IF records[Len(records)] > records[Len(records) - 1] THEN "up"
       ELSE IF records[Len(records)] < records[Len(records) - 1] THEN "down"
       ELSE "stable"
  ELSE "stable"

\* mutant: without records the current CGPA is the top of the scale
CurrentCGPATop(records) ==
  IF Len(records) > 0 THEN records[Len(records)] ELSE 400

\* analyzeCGPA: the cumulative_gpa of the last record, 0 without records
CurrentCGPA(records) ==
  IF Len(records) > 0 THEN records[Len(records)] ELSE 0

NoAnalysis ==
  [currentCGPA |-> 0, trend |-> "", classification |-> "",
   recommendations |-> <<>>, riskLevel |-> ""]

\* analyzeCGPA from "Calculate analysis" to setAnalysis, for a current CGPA
\* and the records of one student
Advise ==
  /\ aOut = NoAnalysis
  /\ aOut' = [currentCGPA |-> aCgpa,
              trend |-> Trend(aRecords),
              classification |-> getClassification(aCgpa),
              recommendations |-> getRecommendations(aCgpa, aRecords).recommendations,
              riskLevel |-> getRecommendations(aCgpa, aRecords).riskLevel]
  /\ UNCHANGED <<results, toast, aCgpa, aRecords, cgpa_records, analysis,
                 smsVars, entryVars, dashVars, gradeVars>>

\* useState analysis before the first analysis (null)
NoStudentAnalysis ==
  [student |-> 0, records |-> <<>>, currentCGPA |-> 0, trend |-> "",
   classification |-> "", recommendations |-> <<>>, riskLevel |-> ""]

\* the orders of the elements of a set
RECURSIVE Orders(_)
Orders(S) ==
  IF S = {} THEN {<<>>}
  ELSE UNION {{<<x>> \o t : t \in Orders(S \ {x})} : x \in S}

\* .eq('student_id', studentId).order('semesters(year)', { ascending: true }):
\* the results the store may return.  Rows of semesters of the same year
\* come in an order the query does not determine
CgpaQuery(rows, studentId) ==
  LET mine == {i \in DOMAIN rows : rows[i].student_id = studentId}
      sorted == {o \in Orders(mine) :
                   \A i, j \in DOMAIN o :
                     i < j => semesters[rows[o[i]].semester_id].year
                                <= semesters[rows[o[j]].semester_id].year}
  IN {[k \in DOMAIN o |->
         [semester_id |-> rows[o[k]].semester_id,
          cumulative_gpa |-> rows[o[k]].cumulative_gpa,
          semesters |-> SemesterJoin(rows[o[k]].semester_id)]] : o \in sorted}

\* analyzeCGPA for a student of the list.  The store is not written while
\* it runs, so its two queries and the computation are one step; outcome
\* says which query failed, if any.  loading is set at its start and cleared
\* at its end
analyzeCGPA(studentId, outcome, cgpaData) ==
  /\ cgpaData \in CgpaQuery(cgpa_records, studentId)
  /\ IF outcome = "ok"
     THEN LET records == cgpaData
              gpas == [k \in DOMAIN records |-> records[k].cumulative_gpa]
              currentCGPA == CurrentCGPA(gpas)
          IN /\ analysis' =
                  [student |-> studentId, records |-> records,
                   currentCGPA |-> currentCGPA,
                   trend |-> Trend(gpas),
                   classification |-> getClassification(currentCGPA),
                   recommendations |->
                     getRecommendations(currentCGPA, gpas).recommendations,
                   riskLevel |-> getRecommendations(currentCGPA, gpas).riskLevel]
             /\ UNCHANGED toast
     ELSE /\ toast' = <<ToastD("Error", outcome)>>
          /\ UNCHANGED analysis
  /\ UNCHANGED <<results, cgpa_records, aCgpa, aRecords, aOut, smsVars,
                 entryVars, dashVars, gradeVars>>

\* ---- inputs of the specifications ----
\* a row written past the result-entry view
insertRow(row, netOk) ==
  /\ Len(results) < MaxResults
  /\ results' = InsertResult(results, row, netOk).rows
  /\ UNCHANGED <<toast, smsVars, entryVars, dashVars, gradeVars, cgpaVars>>

\* scores and grade points of such rows: around the limits of the columns
RawScores == {Pt(0) - 5, Pt(0) - 4, Pt(45), Pt(100) + 4, Pt(100) + 5}
RawGradePoints == {0 - 1, 0, 4, 5}

\* the n-th row of a store that result entry filled, for a score, with its
\* flag as a send left it
EnteredRow(n, score, sent) ==
  [StoredRow([student_id |-> TripleAt(n).student_id,
              course_id |-> TripleAt(n).course_id,
              semester_id |-> TripleAt(n).semester_id,
              score |-> score,
              grade |-> calculateGradeInfo(score).grade,
              grade_point |-> calculateGradeInfo(score).grade_point])
     EXCEPT !.sms_sent = sent]

EnteredScores == {Pt(45), Pt(70)}

RECURSIVE StoreStates(_)
StoreStates(n) ==
  IF n = 0 THEN {<<>>}
  ELSE LET shorter == StoreStates(n - 1)
       IN shorter \cup
          {Append(rows, EnteredRow(n, score, sent)) :
             rows \in {r \in shorter : Len(r) = n - 1},
             score \in EnteredScores, sent \in BOOLEAN}

\* cgpa_records rows, one per (student, semester) pair in a fixed order
CgpaSamples == {300, 301}

RECURSIVE CgpaTables(_)
CgpaTables(n) ==
  IF n = 0 THEN {<<>>}
  ELSE LET shorter == CgpaTables(n - 1)
       IN shorter \cup
          {Append(rows, [student_id |-> ((n - 1) % NumStudents) + 1,
                         semester_id |-> ((n - 1) \div NumStudents) + 1,
                         cumulative_gpa |-> v]) :
             rows \in {r \in shorter : Len(r) = n - 1}, v \in CgpaSamples}

\* every cumulative_gpa the column admits
CgpaValues == 0 .. 400

\* the changes from the record before the last to the last
Deltas == {0 - 50, 0 - 21, 0 - 20, 0 - 19, 0, 10, 19, 20, 21, 50}

\* the records before the last two
HistorySamples == {100, 300}

RECURSIVE Histories(_)
Histories(n) ==
  IF n = 0 THEN {<<>>}
  ELSE Histories(n - 1) \cup
       {Append(h, v) : h \in Histories(n - 1), v \in HistorySamples}

RecordInputs ==
  {<<>>} \cup {<<a>> : a \in CgpaValues} \cup
  {h \o <<p[1], p[1] + p[2]>> :
     h \in Histories(MaxHistory),
     p \in {q \in CgpaValues \X Deltas : q[1] + q[2] \in CgpaValues}}

FewRecords == {<<>>, <<300, 350>>, <<350, 300>>}

\* the students whose records an analysis reads, and their cumulative_gpa
AnalysisStudents == 1 .. 2
AnalysisGpas == {150, 300, 310, 350}

\* cgpa_records tables of up to n rows, in the order of insertion, with at
\* most one row per (student, semester): UNIQUE(student_id, semester_id)
RECURSIVE RecordTables(_)
RecordTables(n) ==
  IF n = 0 THEN {<<>>}
  ELSE LET shorter == RecordTables(n - 1)
           longer ==
             {Append(rows, [student_id |-> st, semester_id |-> m,
                            cumulative_gpa |-> v]) :
                rows \in {r \in shorter : Len(r) = n - 1},
                st \in AnalysisStudents, m \in 1 .. NumSemesters,
                v \in AnalysisGpas}
       IN shorter \cup
          {t \in longer :
             \A i, j \in DOMAIN t :
               i # j => <<t[i].student_id, t[i].semester_id>>
                          # <<t[j].student_id, t[j].semester_id>>}

\* the scores of the Results whose messages are rendered: a whole number,
\* one and two decimals, a leading zero in the decimals, and one that the
\* store rounds
MessageScores == {Pt(45), 69500, 50050, 7070, 69996}

\* ---- specifications ----
\* the views as first mounted on the store the migration creates
InitRest ==
  /\ pendingResults = <<>>
  /\ preview = <<>>
  /\ sending = FALSE
  /\ loading = TRUE
  /\ fetchReq = 1
  /\ fetchResp = EmptyBag
  /\ sends = <<>>
  /\ bulk = NoBulk
  /\ clicks = 0
  /\ toast = <<>>
  /\ entryResults = <<>>
  /\ entryFetches = 1
  /\ stats = [totalStudents |-> 0, totalCourses |-> 0, averageCGPA |-> 0,
              smsSent |-> 0, recentResults |-> <<>>,
              gradeDistribution |-> <<>>, loaded |-> FALSE,
              allOk |-> TRUE]
  /\ formData = EmptyForm

\* no Dashboard load so far
InitClient == InitRest /\ dash = DashIdle

InitViews == results = <<>> /\ InitClient

\* no grade computation and no analysis under way
InitGrade ==
  /\ gScore = 0
  /\ gInfo = NoGrade
  /\ gDb = NoGrade

InitAnalysis ==
  /\ aCgpa = 0
  /\ aRecords = <<>>
  /\ aOut = NoAnalysis
  /\ analysis = NoStudentAnalysis

Init == InitViews /\ cgpa_records = <<>> /\ InitGrade /\ InitAnalysis

\* result entry by any client of the store
AddNext ==
  \E t \in EntryTriples(results), score \in DispatchScores, netOk \in BOOLEAN :
    handleAddResult(t.student_id, t.course_id, t.semester_id, score, netOk)

\* the single sends of the SMS view
SingleSendNext ==
  \/ \E netOk \in BOOLEAN : fetchPendingResultsServe(netOk)
  \/ \E resp \in BagToSet(fetchResp) : fetchPendingResultsDeliver(resp)
  \/ \E rid \in DOMAIN results : sendSingleSMSClick(rid)
  \/ \E i \in DOMAIN sends : sendSingleSMSDelivered(i)
  \/ \E i \in DOMAIN sends, netOk \in BOOLEAN : sendSingleSMSResolve(i, netOk)

SmsNext ==
  \/ SMSNotificationsMount
  \/ sendBulkSMSClick
  \/ SingleSendNext

\* the dispatch workflow: result entry and the SMS view
Next == AddNext \/ SmsNext

Spec == Init /\ [][Next]_vars

\* every timer fires and every store call of a send resolves or rejects
FairSpec ==
  /\ Spec
  /\ WF_vars(\E i \in DOMAIN sends : sendSingleSMSDelivered(i))
  /\ WF_vars(\E i \in DOMAIN sends, netOk \in BOOLEAN :
               sendSingleSMSResolve(i, netOk))

\* the result-entry view next to the single sends of the SMS view
EntryNext ==
  \/ \E t \in EntryTriples(results), score \in ScoreInputs, netOk \in BOOLEAN :
       handleAddResult(t.student_id, t.course_id, t.semester_id, score, netOk)
  \/ \E ok \in BOOLEAN : fetchDataResolve(ok)
  \/ \E rid \in DOMAIN results : sendSMSNotification(rid)
  \/ SingleSendNext

EntrySpec == Init /\ [][EntryNext]_vars

\* a Dashboard load next to result entry and single sends
DashNext ==
  \/ fetchDashboardStatsStart
  \/ \E netOk \in BOOLEAN : fetchDashboardStatsStep(netOk)
  \/ \E t \in EntryTriples(results), score \in ScoreInputs, netOk \in BOOLEAN :
       handleAddResult(t.student_id, t.course_id, t.semester_id, score, netOk)
  \/ SingleSendNext

DashSpec == Init /\ [][DashNext]_vars

\* the SMS view on a store that holds one entered Result, of any triple
MessageInit ==
  /\ InitClient /\ cgpa_records = <<>> /\ InitGrade /\ InitAnalysis
  /\ results \in {<<EnteredRow(n, score, FALSE)>> :
                    n \in 1 .. NumTriples, score \in MessageScores}

MessageSpec == MessageInit /\ [][SmsNext]_vars

\* the SMS view on a populated store that nothing else writes to, with
\* every fetch of the pending list answered without an error
RefreshInit ==
  /\ InitClient /\ cgpa_records = <<>> /\ InitGrade /\ InitAnalysis
  /\ results \in StoreStates(MaxResults)

RefreshNext ==
  \/ SMSNotificationsMount
  \/ sendBulkSMSClick
  \/ fetchPendingResultsServe(TRUE)
  \/ \E resp \in BagToSet(fetchResp) : fetchPendingResultsDeliver(resp)
  \/ \E rid \in DOMAIN results : sendSingleSMSClick(rid)
  \/ \E i \in DOMAIN sends : sendSingleSMSDelivered(i)
  \/ \E i \in DOMAIN sends, netOk \in BOOLEAN : sendSingleSMSResolve(i, netOk)

RefreshSpec == RefreshInit /\ [][RefreshNext]_vars

\* GradeCalculator applied to every score of [0, 100]
GradeInit ==
  /\ InitViews /\ cgpa_records = <<>> /\ InitAnalysis
  /\ gScore \in Pt(0) .. Pt(100)
  /\ gInfo = NoGrade
  /\ gDb = NoGrade

GradeSpec == GradeInit /\ [][ApplyGrade]_vars

\* the result-entry form: filling it, Add Result, and the refresh
FormNext ==
  \/ \E t \in EntryTriples(results), score \in ScoreInputs :
       setFormData(t.student_id, t.course_id, t.semester_id, score)
  \/ \E t \in EntryTriples(results), score \in ScoreInputs, netOk \in BOOLEAN :
       /\ formData = Form(t.student_id, t.course_id, t.semester_id, score)
       /\ handleAddResult(t.student_id, t.course_id, t.semester_id, score, netOk)
  \/ \E ok \in BOOLEAN : fetchDataResolve(ok)

FormSpec == Init /\ [][FormNext]_vars

\* the store under every client the policies admit: result entry, and
\* rows inserted directly
StoreNext ==
  \/ \E t \in EntryTriples(results), score \in ScoreInputs, netOk \in BOOLEAN :
       handleAddResult(t.student_id, t.course_id, t.semester_id, score, netOk)
  \/ \E t \in EntryTriples(results), score \in RawScores, gp \in RawGradePoints,
        netOk \in BOOLEAN :
       insertRow([student_id |-> t.student_id, course_id |-> t.course_id,
                  semester_id |-> t.semester_id, score |-> score,
                  grade |-> "A", grade_point |-> gp], netOk)

StoreSpec == Init /\ [][StoreNext]_vars

\* the Dashboard load of a store that nothing writes meanwhile: any Results
\* that result entry and sends can have left, any CGPA records.  Such a
\* store gives every load the same to read, so this is the last load the
\* bound admits
AggInit ==
  /\ InitRest
  /\ dash = [DashIdle EXCEPT !.loads = MaxLoads - 1]
  /\ results \in StoreStates(MaxResults)
  /\ cgpa_records \in CgpaTables(MaxRecords)
  /\ InitGrade /\ InitAnalysis

AggNext ==
  \/ fetchDashboardStatsStart
  \/ \E netOk \in BOOLEAN : fetchDashboardStatsStep(netOk)

AggSpec == AggInit /\ [][AggNext]_vars

\* the analysis functions on every current CGPA with a few record lists,
\* and on the record lists around the trend limits with their current CGPA
AdvisorInit ==
  /\ InitViews /\ cgpa_records = <<>> /\ InitGrade
  /\ aOut = NoAnalysis
  /\ analysis = NoStudentAnalysis
  /\ \/ aCgpa \in CgpaValues /\ aRecords \in FewRecords
     \/ aRecords \in RecordInputs /\ aCgpa = CurrentCGPA(aRecords)

AdvisorSpec == AdvisorInit /\ [][Advise]_vars

\* what an analysis ends with: success, or the message of the query that
\* failed
AnalysisOutcomes == {"ok", "Failed to fetch"}

\* the CGPA view on a store with records, which nothing writes to
AnalysisInit ==
  /\ InitViews /\ InitGrade /\ InitAnalysis
  /\ cgpa_records \in RecordTables(MaxRecords)

AnalysisNext ==
  \E studentId \in 1 .. NumStudents, outcome \in AnalysisOutcomes :
    \E cgpaData \in CgpaQuery(cgpa_records, studentId) :
      analyzeCGPA(studentId, outcome, cgpaData)

AnalysisSpec == AnalysisInit /\ [][AnalysisNext]_vars

\* ---- properties ----
BulkSends == {i \in DOMAIN sends : sends[i].owner = "bulk"}

Count(seq, v) == Cardinality({i \in DOMAIN seq : seq[i] = v})

\* C1: when a bulk dispatch reports its summary, the success count is the
\* number of items whose send stored notified = true and the failure count
\* is the number of items whose send failed (3 pending, item 2 failing:
\* 2 succeeded, 1 failed).
C1_SummaryCountsOutcomes ==
  bulk.pc = "done" =>
    /\ bulk.successCount = Count(bulk.outcomes, TRUE)
    /\ bulk.failCount = Count(bulk.outcomes, FALSE)

\* C2: a bulk dispatch started after a run that ended with partial failure
\* attempts exactly the Results whose notified flag is false in the store,
\* and none of the Results already marked notified.
C2_SecondRunAttemptsUnnotified ==
  [][(PartialFailure(bulk) /\ bulk'.pc = "loop") =>
       Range(bulk'.list) = {r \in DOMAIN results : ~results[r].sms_sent}]_vars

\* C3: a bulk run attempts the items of the pending set it started with
\* once each and in order, also after a failed item; it terminates, and the
\* success count and the failure count it reports add up to the number of
\* items of that set.
C3_RunAttemptsEveryItemOnce ==
  /\ [](bulk.pc = "loop" =>
          /\ bulk.attempted = SubSeq(bulk.list, 1, bulk.idx)
          /\ bulk.successCount + bulk.failCount = bulk.idx - 1)
  /\ [](bulk.pc = "done" =>
          /\ bulk.attempted = bulk.list
          /\ bulk.successCount + bulk.failCount = Len(bulk.list))
  /\ [][(bulk.pc = "loop" /\ bulk'.pc = "done") =>
          toast'[Len(toast')] = Toast("Bulk SMS Complete", 0,
                                      bulk'.successCount, bulk'.failCount)]_vars
  /\ (bulk.pc = "loop") ~> (bulk.pc = "done")

\* a run has ended whose first item failed and whose later item was attempted
C3_Witness ==
  /\ bulk.pc = "done"
  /\ Len(bulk.list) >= 2
  /\ ~bulk.outcomes[1]
  /\ bulk.attempted = bulk.list

\* C4: a single-item send that fails leaves the store as it was, so the
\* notified flag of a pending Result stays false; the error is shown; and
\* the pending query still returns that Result.
C4_FailedSendLeavesPending ==
  [][\A i \in DOMAIN sends :
       sendSingleSMSResolve(i, FALSE) =>
         /\ results' = results
         /\ toast'[1] = Toast("Error", sends[i].rid, 0, 0)
         /\ ~results[sends[i].rid].sms_sent =>
              /\ ~results'[sends[i].rid].sms_sent
              /\ sends[i].rid \in Range(PendingQuery(results'))]_vars

\* a send of a pending Result has failed: the error is shown and the Result
\* is still unnotified
C4_Witness ==
  /\ toast # <<>>
  /\ toast[1].title = "Error" /\ toast[1].rid \in DOMAIN results
  /\ ~results[toast[1].rid].sms_sent
  /\ toast[1].rid \in Range(PendingQuery(results))
  /\ sends = <<>>

\* C5: once a Result's notified flag is true it stays true, whatever result
\* entries, single sends and bulk dispatches follow.
C5_NotifiedMonotonic ==
  [][\A r \in DOMAIN results :
       results[r].sms_sent =>
         r \in DOMAIN results' /\ results'[r].sms_sent]_vars

\* a Result was notified by a bulk run that has ended, and a Result that
\* was entered too late for that run's list is in the store
C5_Witness ==
  /\ Len(results) = 2
  /\ results[1].sms_sent
  /\ bulk.pc = "done" /\ bulk.list = <<1>>

\* C6: whenever a success notice of a single-item send is shown for a
\* Result, the stored notified flag of that Result is true.
C6_SuccessNoticeImpliesNotified ==
  \A i \in DOMAIN toast :
    toast[i].title = "SMS Sent" => results[toast[i].rid].sms_sent

\* C7: the sends of a bulk run are strictly sequential and in the order of
\* its pending set: at most one is in flight, it is the send of the current
\* item, and every earlier item's send has completed or failed.
C7_SendsSequential ==
  /\ Cardinality(BulkSends) <= 1
  /\ bulk.pc = "loop" =>
       /\ \E i \in BulkSends : sends[i].rid = bulk.list[bulk.idx]
       /\ Len(bulk.outcomes) = bulk.idx - 1
       /\ \A j \in DOMAIN bulk.attempted : bulk.attempted[j] = bulk.list[j]
  /\ bulk.pc # "loop" => BulkSends = {}

\* the run is at its second item, whose send is the only one in flight
C7_Witness ==
  /\ bulk.pc = "loop"
  /\ bulk.idx = 2
  /\ Len(sends) = 1
  /\ sends[1].rid = bulk.list[2]
  /\ sends[1].owner = "bulk"
  /\ sends[1].pc = "update"

\* C8: every single-item send and every bulk dispatch finishes, and when
\* none is in progress the sending flag is false, also after a failure.
C8_FinishesAndReleasesSending ==
  /\ []((sends = <<>> /\ bulk.pc # "loop") => ~sending)
  /\ (sends # <<>> \/ bulk.pc = "loop") ~> (sends = <<>> /\ bulk.pc # "loop")

\* a single send has failed and ended with the sending flag false
C8_Witness ==
  /\ toast # <<>>
  /\ toast[Len(toast)].title = "Error" /\ toast[Len(toast)].rid # 0
  /\ sends = <<>> /\ bulk.pc = "none"
  /\ ~sending

\* the states the store has been in, or a superset: a prefix of the rows
\* with some of the flags that are set now
PastStores(rows) ==
  {[i \in 1 .. k |-> [rows[i] EXCEPT !.sms_sent = (i \in F)]] :
     k \in 0 .. Len(rows),
     F \in SUBSET {i \in DOMAIN rows : rows[i].sms_sent}}

\* C9: the statistics of a Dashboard load whose queries all succeeded
\* describe one single state of the store, also when results are entered
\* or flags updated between its queries.
C9_StatsDescribeOneState ==
  (stats.loaded /\ stats.allOk) =>
    \E S \in PastStores(results) :
      /\ stats.smsSent = NotifiedCount(S)
      /\ stats.recentResults = RecentResults(S)
      /\ stats.gradeDistribution =
           GradeDistribution([i \in DOMAIN S |-> S[i].grade])

\* the table of section 4.1, top-down
GradeBands ==
  <<[min |-> 70, grade |-> "A", grade_point |-> 4],
    [min |-> 60, grade |-> "B", grade_point |-> 3],
    [min |-> 50, grade |-> "C", grade_point |-> 2],
    [min |-> 45, grade |-> "D", grade_point |-> 1],
    [min |-> 40, grade |-> "E", grade_point |-> 0]>>

FirstBand(score) ==
  LET hits == {i \in DOMAIN GradeBands : score >= Pt(GradeBands[i].min)}
  IN IF hits = {} THEN [grade |-> "F", grade_point |-> 0]
     ELSE LET i == CHOOSE i \in hits : \A j \in hits : i <= j
          IN [grade |-> GradeBands[i].grade,
              grade_point |-> GradeBands[i].grade_point]

BoundaryScores == <<39, 40, 44, 45, 49, 50, 59, 60, 69, 70, 100>>
BoundaryGrades == <<"F", "E", "E", "D", "D", "C", "C", "B", "B", "A", "A">>
BoundaryPoints == <<0, 0, 0, 1, 1, 2, 2, 3, 3, 4, 4>>

\* C10: for every score in [0, 100] GradeCalculator returns the first
\* matching band of the table, and the eleven boundary scores give
\* F,E,E,D,D,C,C,B,B,A,A with grade-points 0,0,0,1,1,2,2,3,3,4,4.
C10_GradeIsFirstMatchingBand ==
  gInfo # NoGrade =>
    /\ gInfo = FirstBand(gScore)
    /\ \A k \in DOMAIN BoundaryScores :
         gScore = Pt(BoundaryScores[k]) =>
           /\ gInfo.grade = BoundaryGrades[k]
           /\ gInfo.grade_point = BoundaryPoints[k]

\* the boundary score 70 has been graded A with 4 grade-points
C10_Witness ==
  /\ gScore = Pt(70)
  /\ gInfo = [grade |-> "A", grade_point |-> 4]

\* C11: for every score of [0, 100] the client's calculateGradeInfo and the
\* database's calculate_grade give the same grade and the same grade point.
C11_ClientAndDatabaseGradeAgree ==
  gInfo # NoGrade =>
    /\ gDb.grade = gInfo.grade
    /\ gDb.grade_point = gInfo.grade_point

C11_Witness ==
  gScore = Pt(45) /\ gInfo.grade = "D" /\ gDb.grade = "D" /\ gDb.grade_point = 1

\* the CGPAs and classifications of the example of section 8
ClassExampleCgpas == <<190, 200, 260, 270, 320, 330, 360, 370, 400>>
ClassExampleNames ==
  <<"Pass", "Third Class Honours", "Third Class Honours",
    "Second Class Honours (Lower Division)",
    "Second Class Honours (Lower Division)",
    "Second Class Honours (Upper Division)",
    "Second Class Honours (Upper Division)",
    "First Class Honours", "First Class Honours">>

\* C12: the classification of a CGPA is First Class from 3.7, Second Class
\* Upper from 3.3 to below 3.7, Second Class Lower from 2.7 to below 3.3,
\* Third Class from 2.0 to below 2.7 and Pass below 2.0, each lower limit
\* included; 1.9, 2.0, 2.6, 2.7, 3.2, 3.3, 3.6, 3.7, 4.0 classify as listed.
C12_ClassificationBands ==
  aOut # NoAnalysis =>
    /\ aOut.classification = "First Class Honours" <=> aCgpa >= 370
    /\ aOut.classification = "Second Class Honours (Upper Division)"
         <=> (aCgpa >= 330 /\ aCgpa < 370)
    /\ aOut.classification = "Second Class Honours (Lower Division)"
         <=> (aCgpa >= 270 /\ aCgpa < 330)
    /\ aOut.classification = "Third Class Honours"
         <=> (aCgpa >= 200 /\ aCgpa < 270)
    /\ aOut.classification = "Pass" <=> aCgpa < 200
    /\ \A i \in DOMAIN ClassExampleCgpas :
         aCgpa = ClassExampleCgpas[i] =>
           aOut.classification = ClassExampleNames[i]

C12_Witness ==
  aCgpa = 370 /\ aOut.classification = "First Class Honours"

RiskRank(level) ==
  IF level = "high" THEN 2 ELSE IF level = "medium" THEN 1 ELSE 0

\* the recommendations of the tier: all but a trend note at the end
BaseCount(recs) ==
  IF recs # <<>> /\ recs[Len(recs)] \in {DeclineNote, ImprovementNote}
  THEN Len(recs) - 1 ELSE Len(recs)

\* C13: before the trend note, a CGPA below 2.0 gives risk high and 4
\* recommendations, [2.0, 2.7) medium and 4, [2.7, 3.3) low and 3, 3.3 and
\* above low and 4; no lower CGPA has a lower risk; the list is never
\* empty; 1.5, 2.5, 3.0, 3.8 give high, medium, low, low.
C13_BaseTierByBand ==
  aOut # NoAnalysis =>
    /\ aCgpa < 200 =>
         aOut.riskLevel = "high" /\ BaseCount(aOut.recommendations) = 4
    /\ (aCgpa >= 200 /\ aCgpa < 270) =>
         aOut.riskLevel = "medium" /\ BaseCount(aOut.recommendations) = 4
    /\ (aCgpa >= 270 /\ aCgpa < 330) =>
         aOut.riskLevel = "low" /\ BaseCount(aOut.recommendations) = 3
    /\ aCgpa >= 330 =>
         aOut.riskLevel = "low" /\ BaseCount(aOut.recommendations) = 4
    /\ aOut.recommendations # <<>>
    /\ \A c \in 0 .. aCgpa :
         RiskRank(BaseTier(c).riskLevel) >= RiskRank(aOut.riskLevel)
    /\ aCgpa = 150 => aOut.riskLevel = "high"
    /\ aCgpa = 250 => aOut.riskLevel = "medium"
    /\ aCgpa = 300 => aOut.riskLevel = "low"
    /\ aCgpa = 380 => aOut.riskLevel = "low"

C13_Witness ==
  /\ aCgpa = 270 /\ aRecords = <<>>
  /\ aOut.riskLevel = "low" /\ Len(aOut.recommendations) = 3

\* C14: the decline warning is the last recommendation exactly when there
\* are two or more records and the latest cumulative_gpa minus the one
\* before is below -0.2, the improvement note exactly when it is above 0.2;
\* a change of exactly 0.2 or -0.2, and fewer than two records, add neither.
C14_TrendNoteBeyondLimit ==
  aOut # NoAnalysis =>
    LET n == Len(aRecords)
        recs == aOut.recommendations
        delta == IF n >= 2 THEN aRecords[n] - aRecords[n - 1] ELSE 0
    IN /\ recs[Len(recs)] = DeclineNote <=> (n >= 2 /\ delta < 0 - 20)
       /\ recs[Len(recs)] = ImprovementNote <=> (n >= 2 /\ delta > 20)
       /\ Len(recs) = Len(BaseTier(aCgpa).recommendations)
                        + (IF n >= 2 /\ (delta < 0 - 20 \/ delta > 20)
                           THEN 1 ELSE 0)

\* C15: with two or more records the trend is up when the latest
\* cumulative_gpa is above the one before, down when it is below, stable
\* when they are equal; with no or one record it is stable.
C15_TrendIndicatorBySign ==
  aOut # NoAnalysis =>
    LET n == Len(aRecords) IN
    /\ n < 2 => aOut.trend = "stable"
    /\ n >= 2 =>
         /\ aOut.trend = "up" <=> aRecords[n] > aRecords[n - 1]
         /\ aOut.trend = "down" <=> aRecords[n] < aRecords[n - 1]
         /\ aOut.trend = "stable" <=> aRecords[n] = aRecords[n - 1]

C15_Witness ==
  Len(aRecords) = 3 /\ aRecords[3] = aRecords[2] /\ aOut.trend = "stable"

AllTriples == {TripleAt(n) : n \in 1 .. NumTriples}

\* the submitted scores that are numbers of [0, 100]
ValidScoreInputs ==
  {score \in ScoreInputs : score >= Pt(0) /\ score <= Pt(100)}

HasTriple(rows, t) ==
  \E i \in DOMAIN rows :
    /\ rows[i].student_id = t.student_id
    /\ rows[i].course_id = t.course_id
    /\ rows[i].semester_id = t.semester_id

\* C16: in every reachable state no two Results have the same (student,
\* course, semester); adding a Result for a triple that has one fails with
\* an error of the store that is shown to the user, and the stored Results
\* stay as they are.
C16_OneResultPerTriple ==
  /\ [](\A i, j \in DOMAIN results :
          (/\ results[i].student_id = results[j].student_id
           /\ results[i].course_id = results[j].course_id
           /\ results[i].semester_id = results[j].semester_id) => i = j)
  /\ [][\A t \in AllTriples, score \in ValidScoreInputs, netOk \in BOOLEAN :
          (/\ HasTriple(results, t)
           /\ formData = Form(t.student_id, t.course_id, t.semester_id, score)
           /\ handleAddResult(t.student_id, t.course_id, t.semester_id,
                              score, netOk))
          => /\ results' = results
             /\ Len(toast') = 1
             /\ toast'[1].title = "Error"
             /\ toast'[1].description
                  = (IF netOk
                     THEN "duplicate key value violates unique constraint"
                     ELSE "Failed to fetch")]_vars

C16_Witness ==
  /\ Len(results) = 1
  /\ formData = Form(results[1].student_id, results[1].course_id,
                     results[1].semester_id, Pt(45))
  /\ toast = <<ToastD("Error",
                      "duplicate key value violates unique constraint")>>

\* C17: Add Result with a score that is not a number, below 0 or above 100
\* ends before a grade is computed or the store is called: the error is
\* shown, no Result is inserted, and the stored Results and the form stay
\* as they are.
C17_InvalidScoreRejected ==
  [][\A t \in AllTriples, score \in ScoreInputs \ ValidScoreInputs,
       netOk \in BOOLEAN :
       (/\ formData = Form(t.student_id, t.course_id, t.semester_id, score)
        /\ handleAddResult(t.student_id, t.course_id, t.semester_id,
                           score, netOk))
       => /\ results' = results
          /\ formData' = formData
          /\ entryFetches' = entryFetches
          /\ toast' = <<ToastD("Error",
                        "Please enter a valid score between 0 and 100")>>]_vars

C17_Witness ==
  /\ Len(results) = 1
  /\ formData.score = <<Pt(100) + 1>>
  /\ toast = <<ToastD("Error",
                      "Please enter a valid score between 0 and 100")>>

\* C18: every stored Result has a score of [0, 100] and a grade point of
\* [0, 4], in every reachable state.
C18_StoredValuesInRange ==
  \A i \in DOMAIN results :
    /\ results[i].score >= Pt(0) /\ results[i].score <= Pt(100)
    /\ results[i].grade_point >= 0 /\ results[i].grade_point <= 4

C18_Witness ==
  /\ Len(results) = 2
  /\ results[1].score = Pt(100) /\ results[1].grade_point = 4
  /\ results[2].score = Pt(0) /\ results[2].grade_point = 0

CgpaSum == SeqSum([i \in DOMAIN cgpa_records |-> cgpa_records[i].cumulative_gpa])

\* the histogram and the notified count of C20
HistogramAndCountExact ==
  /\ DOMAIN stats.gradeDistribution = {results[i].grade : i \in DOMAIN results}
  /\ \A g \in DOMAIN stats.gradeDistribution :
       stats.gradeDistribution[g]
         = Cardinality({i \in DOMAIN results : results[i].grade = g})
  /\ stats.smsSent
       = Cardinality({i \in DOMAIN results : results[i].sms_sent})

\* C20 as stated: after a load of an unchanging store whose queries all
\* succeeded, the histogram has exactly the grades that occur, each with
\* its number of Results, the notified count is the number of Results with
\* the flag set, and the average CGPA is the mean of cumulative_gpa over
\* all CGPA records.
C20_AverageIsExactMean ==
  (stats.loaded /\ stats.allOk) =>
    /\ HistogramAndCountExact
    /\ stats.averageCGPA * Len(cgpa_records) = CgpaSum

\* C20 amended: as above, with the average CGPA being the mean rounded to
\* two decimals: a hundredth at most half a hundredth away from the mean
\* (0 without records).
C20_AverageIsRoundedMean ==
  (stats.loaded /\ stats.allOk) =>
    /\ HistogramAndCountExact
    /\ LET n == Len(cgpa_records)
           d == stats.averageCGPA * n - CgpaSum
       IN IF n = 0 THEN stats.averageCGPA = 0
          ELSE 2 * d <= n /\ 2 * d >= 0 - n

C20_Witness ==
  /\ stats.loaded /\ stats.allOk
  /\ Len(results) = 2 /\ results[1].grade = results[2].grade
  /\ results[1].sms_sent /\ ~results[2].sms_sent
  /\ Len(cgpa_records) = 2 /\ CgpaSum = 601
RECURSIVE Concat(_)
Concat(pieces) ==
  IF pieces = <<>> THEN "" ELSE Head(pieces) \o Concat(Tail(pieces))

\* the template of the notification with the fields of Result rid put in
Substituted(rid) ==
  LET r == results[rid] IN
  Concat(<<"Dear ", students[r.student_id].first_name,
           ", your ", courses[r.course_id].course_code,
           " (", courses[r.course_id].course_name,
           ") result for ", semesters[r.semester_id].name,
           " ", ToString(semesters[r.semester_id].year),
           " is now available. Score: ", NumberToString(r.score),
           "% (Grade ", r.grade,
           "). Visit the portal for details.">>)

\* C21: the message of every send and the preview of every pending row are
\* the template with the Result's own first name, course code, course name,
\* semester name, semester year, score and grade put in, in that order and
\* with no other text, so that the preview of a Result and the message sent
\* for it are the same text
C21_MessageIsFilledTemplate ==
  /\ DOMAIN preview = DOMAIN pendingResults
  /\ \A k \in DOMAIN preview : preview[k] = Substituted(pendingResults[k])
  /\ \A i \in DOMAIN sends : sends[i].message = Substituted(sends[i].rid)
  /\ \A i \in DOMAIN sends, k \in DOMAIN preview :
       pendingResults[k] = sends[i].rid => preview[k] = sends[i].message

\* a send in flight for a previewed row, with the text spelled out
C21_Witness ==
  /\ sends # <<>>
  /\ pendingResults = <<sends[1].rid>>
  /\ preview = <<sends[1].message>>
  /\ sends[1].message =
       "Dear Jane, your MATH201 (Calculus II) result for Spring 2024 2024 is now available. Score: 69.5% (Grade B). Visit the portal for details."

\* the ids of the Results whose notified flag is false
Unnotified(rows) == {rid \in DOMAIN rows : ~rows[rid].sms_sent}

\* C22: a Result that result entry creates has notified = false; every
\* fetch of unnotified Results that the store answers returns every Result
\* whose flag is false at that moment; and a flag becomes true only in the
\* step in which a send for that Result succeeds
C22_PendingUntilSent ==
  [][/\ Len(results') > Len(results) =>
          /\ Len(results') = Len(results) + 1
          /\ ~results'[Len(results')].sms_sent
     /\ fetchReq' < fetchReq =>
          \E resp \in BagToSet(fetchResp') :
            /\ CopiesIn(resp, fetchResp') = CopiesIn(resp, fetchResp) + 1
            /\ resp.ok => Unnotified(results) \subseteq Range(resp.data)
     /\ \A rid \in DOMAIN results :
          ~results[rid].sms_sent /\ results'[rid].sms_sent =>
            /\ \E i \in DOMAIN sends :
                 sends[i].rid = rid /\ sends[i].pc = "update"
            /\ \E k \in DOMAIN toast' :
                 toast'[k].title = "SMS Sent" /\ toast'[k].rid = rid
    ]_vars

\* after the send of the first Result succeeded, a fetch returned the
\* second Result alone
C22_Witness ==
  /\ Len(results) = 2
  /\ results[1].sms_sent /\ ~results[2].sms_sent
  /\ BagIn([ok |-> TRUE, data |-> <<2>>], fetchResp)

C24_NoResultSentTwice ==
  [][(clicks' > clicks \/ (bulk.pc = "loop" /\ bulk'.pc = "loop"
                            /\ bulk'.idx > bulk.idx)) =>
       LET started == sends'[Len(sends')] IN
         /\ ~results'[started.rid].sms_sent
         /\ \A j \in 1 .. (Len(sends') - 1) : sends'[j].rid # started.rid
    ]_vars

\* C25: once a bulk run has finished and no send and no fetch of the
\* pending list is outstanding, the displayed list holds exactly the
\* Results whose notified flag is false in the store
C25_ListMatchesStoreAfterRun ==
  (bulk.pc = "done" /\ sends = <<>> /\ fetchReq = 0 /\ fetchResp = EmptyBag)
    => Range(pendingResults) = Unnotified(results)

\* the fields of a Result other than its notified flag
FrameFields(row) ==
  <<row.student_id, row.course_id, row.semester_id, row.score, row.grade,
    row.grade_point>>

C27_StoredGradeMatchesStoredScore ==
  \A rid \in DOMAIN results :
    [grade |-> results[rid].grade, grade_point |-> results[rid].grade_point]
      = calculateGradeInfo(results[rid].score)

\* C28: in the output of one analysis the decline warning is among the
\* recommendations only if the trend indicator is down, the improvement
\* note only if it is up, never both, and with an indicator of stable
\* neither is there
C28_OverlayAgreesWithIndicator ==
  aOut # NoAnalysis =>
    LET shown == Range(aOut.recommendations) IN
      /\ DeclineNote \in shown => aOut.trend = "down"
      /\ ImprovementNote \in shown => aOut.trend = "up"
      /\ ~(DeclineNote \in shown /\ ImprovementNote \in shown)
      /\ aOut.trend = "stable" =>
           DeclineNote \notin shown /\ ImprovementNote \notin shown

\* an analysis of three records that rise and then fall by more than 0.2:
\* the warning is shown and the indicator is down
C28_Witness ==
  /\ aOut # NoAnalysis
  /\ Len(aRecords) = 3
  /\ aRecords[1] < aRecords[2] /\ aRecords[3] < aRecords[2]
  /\ DeclineNote \in Range(aOut.recommendations)
  /\ aOut.trend = "down"

\* the rows of cgpa_records of a student
RecordsOf(studentId) ==
  {i \in DOMAIN cgpa_records : cgpa_records[i].student_id = studentId}

\* C29: an analysis of a student without CGPA records has current CGPA 0,
\* classification Pass, risk level high with the 4 high-risk
\* recommendations and nothing after them, and trend stable
C29_NoRecordsAnalysis ==
  (analysis # NoStudentAnalysis /\ RecordsOf(analysis.student) = {}) =>
    /\ analysis.records = <<>>
    /\ analysis.currentCGPA = 0
    /\ analysis.classification = "Pass"
    /\ analysis.riskLevel = "high"
    /\ Len(analysis.recommendations) = 4
    /\ analysis.recommendations = HighRiskList
    /\ analysis.trend = "stable"

\* an analysis of a student without records in a store that holds the
\* records of another student
C29_Witness ==
  /\ analysis # NoStudentAnalysis
  /\ RecordsOf(analysis.student) = {}
  /\ cgpa_records # <<>>
  /\ analysis.riskLevel = "high"

\* C30: the records of an analysis are in the order of their semesters in
\* time, so that the current CGPA is that of the latest semester's record
C30_RecordsChronological ==
  analysis # NoStudentAnalysis =>
    /\ \A i, j \in DOMAIN analysis.records :
         i < j => semesters[analysis.records[i].semester_id].start_date
                    < semesters[analysis.records[j].semester_id].start_date
    /\ \A i \in RecordsOf(analysis.student) :
         (\A j \in RecordsOf(analysis.student) :
            semesters[cgpa_records[j].semester_id].start_date
              <= semesters[cgpa_records[i].semester_id].start_date)
           => analysis.currentCGPA = cgpa_records[i].cumulative_gpa

====
